---- MODULE Spec2Model ----
(***************************************************************************)
(* Model of sapi's request-dispatch loop (src/src/main.rs, main, lines     *)
(* 86-283): the loop over the parsed requests, the HTTP exchange of each   *)
(* one, the classification of its result, the append to the locked         *)
(* responses vector, and the final save to sapi.json.                      *)
(*                                                                         *)
(* Strings the code only copies are TLA+ strings.  A header value is a     *)
(* sequence of string tokens whose concatenation is the value, so that     *)
(* starts_with is a real prefix test.  An Option is a sequence of length   *)
(* 0 (None) or 1 (Some).                                                   *)
(***************************************************************************)
EXTENDS Integers, Sequences, FiniteSets, TLC

VARIABLES
    request_contents,   \* Vec<Request> parsed from the YAML file (line 79)
    i,                  \* position of the for loop (line 87), 1-based
    pc,                 \* where main is: loop, call, send_form, send_json,
                        \* send_text, push, blocked, write, done, exit, panic
    wire,               \* every HTTP exchange begun, with its result
    pending,            \* Option: the Response value about to be pushed
    locked,             \* whether the responses Mutex is held
    responses,          \* the Vec<Response> inside the Mutex (line 86)
    origin,             \* history: origin[k] is the request of responses[k]
    console,            \* lines printed to stdout / stderr
    sapi_json,          \* Option: the lines of the file sapi.json, if it exists
    exit_code           \* Option: the exit status of the process

vars == <<request_contents, i, pc, wire, pending, locked, responses, origin,
          console, sapi_json, exit_code>>

\* Longest input batch explored.
MaxRequests == 2

None == <<>>
Some(v) == <<v>>

-----------------------------------------------------------------------------
(* The inputs: requests as serde_yaml yields them (struct Request).        *)

GetVerbs == {"GET", "HEAD", "DELETE"}
PostVerbs == {"POST", "PUT", "PATCH"}
\* "OPTIONS" and the lower-case "get" stand for every other method string.
Methods == GetVerbs \cup PostVerbs \cup {"OPTIONS", "get"}

FormPrefix == <<"application/", "x-www-form-urlencoded">>
JsonPrefix == <<"application/", "json">>
TextPrefix == <<"text/", "plain">>

ContentTypes ==
    { FormPrefix,
      JsonPrefix \o <<"; charset=utf-8">>,
      TextPrefix,
      <<"application/", "xml">> }

HeaderChoices ==
    {None, Some("Authorization" :> <<"Bearer t">>)}
        \cup {Some("Content-Type" :> ct) : ct \in ContentTypes}

DataChoices == {None, Some([a |-> "1", txt |-> "hello"]), Some([a |-> "1"])}

\* struct Request (lines 16-24).
Request ==
    [target : {"127.0.0.1"}, port : {8080}, endpoint : {"/ping", "/items"},
     method : Methods, headers : HeaderChoices, data : DataChoices]

\* The part of Request the batches are drawn from: one request per
\* combination of fields that the dispatch code distinguishes.
RequestSpace ==
    { r \in Request :
        \/ /\ r.method \notin (GetVerbs \cup PostVerbs)
           /\ r.endpoint = "/ping" /\ r.headers = None /\ r.data = None
        \/ /\ r.method \in GetVerbs
           /\ r.endpoint = "/ping"
           /\ \/ r.headers = None /\ r.data = None
              \/ r.headers = Some("Content-Type" :> JsonPrefix \o <<"; charset=utf-8">>)
                 /\ r.data = Some([a |-> "1", txt |-> "hello"])
        \/ /\ r.method \in PostVerbs
           /\ r.endpoint = "/items"
           /\ \/ r.data = None
                 /\ r.headers \in {None, Some("Content-Type" :> FormPrefix)}
              \/ r.data = Some([a |-> "1", txt |-> "hello"])
                 /\ r.headers # Some("Authorization" :> <<"Bearer t">>)
              \/ r.data = Some([a |-> "1"])
                 /\ r.headers \in {Some("Content-Type" :> TextPrefix),
                                   Some("Authorization" :> <<"Bearer t">>)} }

Batches == UNION {[1..n -> RequestSpace] : n \in 0..MaxRequests}

\* What the network can answer to one exchange: a response (status line,
\* body that may not decode as text, elapsed milliseconds) or a transport
\* error.
Outcomes ==
    { [kind |-> "response", status |-> 200, status_text |-> "OK",
       body |-> Some("pong"), elapsed_ms |-> 3, error |-> ""],
      [kind |-> "response", status |-> 404, status_text |-> "Not Found",
       body |-> None, elapsed_ms |-> 12, error |-> ""],
      [kind |-> "response", status |-> 500, status_text |-> "Internal Server Error",
       body |-> Some("oops"), elapsed_ms |-> 40, error |-> ""],
      [kind |-> "transport", status |-> 0, status_text |-> "",
       body |-> None, elapsed_ms |-> 0, error |-> "Connection refused"] }

Pending ==
    [kind |-> "pending", status |-> 0, status_text |-> "", body |-> None,
     elapsed_ms |-> 0, error |-> ""]

-----------------------------------------------------------------------------
(* Pure helpers, as the code computes them.                                *)

\* str::starts_with on token sequences.
StartsWith(s, prefix) ==
    /\ Len(s) >= Len(prefix)
    /\ SubSeq(s, 1, Len(prefix)) = prefix

\* format!("http://{}:{}{}", target, port, endpoint), lines 91 and 131.
Url(request) ==
    "http://" \o request.target \o ":" \o ToString(request.port) \o request.endpoint

\* Mutant of VerbArm: the outer match without its default arm, every other
\* method falling into the GET|HEAD|DELETE arm.
VerbArmWithoutDefault(method) ==
    IF method \in {"POST", "PUT", "PATCH"} THEN "post" ELSE "get"

\* The outer match on request.method (lines 89-90, 130, 264).
VerbArm(method) ==
    IF method \in {"GET", "HEAD", "DELETE"} THEN "get"
    ELSE IF method \in {"POST", "PUT", "PATCH"} THEN "post"
    ELSE "unsupported"

\* The inner matches (lines 93-101, 133-141): the request builder chosen, or
\* None where the inner match takes its wildcard arm.
Builder(arm, method) ==
    IF arm = "get" /\ method \in {"GET", "HEAD", "DELETE"} THEN Some(method)
    ELSE IF arm = "post" /\ method \in {"POST", "PUT", "PATCH"} THEN Some(method)
    ELSE None

\* The loop req = req.set(header, data) over headers, lines 102-106.
SetHeaders(headers) ==
    IF headers = None THEN <<>> ELSE headers[1]

\* req.header("Content-Type"), line 148.  The inputs spell the name in
\* this case only, and a map holds it once, so the lookup is by equality.
Header(req_headers, name) ==
    IF name \in DOMAIN req_headers THEN Some(req_headers[name]) ELSE None

\* Mutant of ContentArm: the json arm tested first and on the media type's
\* first token only.
ContentArmShortPrefix(content_type) ==
    IF content_type = None THEN "none"
    ELSE IF StartsWith(content_type[1], <<"application/">>) THEN "json"
    ELSE IF StartsWith(content_type[1], FormPrefix) THEN "form"
    ELSE IF StartsWith(content_type[1], TextPrefix) THEN "text"
    ELSE "none"

\* The match on the Content-Type value, arms in source order (lines 149,
\* 186, 223, 260).
ContentArm(content_type) ==
    IF content_type = None THEN "none"
    ELSE IF StartsWith(content_type[1], FormPrefix) THEN "form"
    ELSE IF StartsWith(content_type[1], JsonPrefix) THEN "json"
    ELSE IF StartsWith(content_type[1], TextPrefix) THEN "text"
    ELSE "none"

\* The keys of a data map in ascending order: serde_json's Map is a BTreeMap
\* in its default build, so to_value sorts the HashMap's keys.
KeyOrder == <<"a", "txt">>

RECURSIVE JsonMembers(_, _)
JsonMembers(data, k) ==
    IF k > Len(KeyOrder) THEN <<>>
    ELSE IF KeyOrder[k] \in DOMAIN data
         THEN <<"\"" \o KeyOrder[k] \o "\":\"" \o data[KeyOrder[k]] \o "\"">>
                  \o JsonMembers(data, k + 1)
         ELSE JsonMembers(data, k + 1)

RECURSIVE Join(_, _)
Join(parts, sep) ==
    IF parts = <<>> THEN ""
    ELSE IF Len(parts) = 1 THEN parts[1]
    ELSE parts[1] \o sep \o Join(Tail(parts), sep)

\* serde_json::to_string(&serde_json::to_value(data)), line 187.
ToJson(data) == "{" \o Join(JsonMembers(data, 1), ",") \o "}"

\* data.iter() of a HashMap (line 150): the pairs in any order.
Orders(data) ==
    { o \in [1..Cardinality(DOMAIN data) -> DOMAIN data] :
        \A x, y \in DOMAIN o : x # y => o[x] # o[y] }

Form(data, order) == [k \in DOMAIN order |-> <<order[k], data[order[k]]>>]

NoBody == [kind |-> "none", form |-> <<>>, text |-> ""]
FormBody(form) == [kind |-> "form", form |-> form, text |-> ""]
StringBody(s) == [kind |-> "string", form |-> <<>>, text |-> s]

\* Mutant of Classify: the match without its Err(Error::Status(_, r)) arm.
ClassifyWithoutStatusArm(result) ==
    IF result.kind = "transport" \/ result.status >= 400 THEN "transport"
    ELSE "ok"

\* Result of req.call() / send_form / send_string as the match sees it
\* (lines 109-111): ureq returns Err(Error::Status) for a status >= 400.
Classify(result) ==
    IF result.kind = "transport" THEN "transport"
    ELSE IF result.status >= 400 THEN "status"
    ELSE "ok"

\* response.into_string() with its Err arm (lines 124-127).
IntoString(body) == IF body = None THEN "" ELSE body[1]

\* The method field of the Response literal of each arm (lines 121, 159,
\* 174, 196, 211, 233, 248).
MethodField(at, class, method) ==
    IF at = "call" THEN method
    ELSE IF at = "send_form" /\ class = "ok" THEN method
    ELSE "POST"

\* The Response literal (lines 118-128 and its copies).
MakeResponse(at, class, request, result) ==
    [status |-> result.status,
     status_text |-> result.status_text,
     method |-> MethodField(at, class, request.method),
     url |-> Url(request),
     server_response_time_ms |-> result.elapsed_ms,
     response_body |-> IntoString(result.body)]

SentLine(request, result) ==
    <<"stdout", "Sent request to " \o Url(request) \o " and got response: "
                    \o ToString(result.status) \o " " \o result.status_text>>

\* What a transport error does at each call site: line 111-114 exits,
\* lines 183, 220, 257 print and go on.
OnTransportError(at) == IF at = "call" THEN "exit" ELSE "continue"

\* The MutexGuard of responses.lock().await.push(..) is a temporary: it is
\* dropped at the end of the statement.
GuardAfterPush(held) == FALSE

\* Mutant of Push: insert at the front of the vector.
PushFront(vec, value) == <<value>> \o vec

\* Vec::push (line 118).
Push(vec, value) == Append(vec, value)

\* One element of the vector as serde_json's pretty printer writes it, a
\* line per sequence element, the fields in the order of struct Response
\* (lines 27-34).
ResponseLines(r, last) ==
    << "  {",
       "    \"status\": " \o ToString(r.status) \o ",",
       "    \"status_text\": \"" \o r.status_text \o "\",",
       "    \"method\": \"" \o r.method \o "\",",
       "    \"url\": \"" \o r.url \o "\",",
       "    \"server_response_time_ms\": " \o ToString(r.server_response_time_ms) \o ",",
       "    \"response_body\": \"" \o r.response_body \o "\"",
       IF last THEN "  }" ELSE "  }," >>

RECURSIVE ElementLines(_, _)
ElementLines(vec, k) ==
    IF k > Len(vec) THEN <<>>
    ELSE ResponseLines(vec[k], k = Len(vec)) \o ElementLines(vec, k + 1)

\* to_writer_pretty of the vector (line 275): the lines of the document.
ToWriterPretty(vec) ==
    IF vec = <<>> THEN <<"[]">>
    ELSE <<"[">> \o ElementLines(vec, 1) \o <<"]">>

\* The limits on the size of sapi.json, in lines: none, nothing fits, four
\* lines fit.
WriteLimits == {None, Some(0), Some(4)}

\* What reaches the file under a limit.
Written(document, limit) ==
    IF limit = None \/ Len(document) <= limit[1] THEN document
    ELSE SubSeq(document, 1, limit[1])

\* sapi.json before the run: absent, or the document a previous run saved.
PreviousFiles == {None, Some(<<"[]">>)}

-----------------------------------------------------------------------------
(* State after parsing, at line 86.                                        *)

Init ==
    /\ request_contents \in Batches
    /\ i = 1
    /\ pc = "loop"
    /\ wire = <<>>
    /\ pending = None
    /\ locked = FALSE
    /\ responses = <<>>
    /\ origin = <<>>
    /\ console = <<>>
    /\ sapi_json \in PreviousFiles
    /\ exit_code = None

Exchange(request, body) ==
    [idx |-> i, verb |-> request.method, url |-> Url(request),
     headers |-> SetHeaders(request.headers), body |-> body, result |-> Pending]

\* One iteration of the for loop up to the network call (lines 87-107,
\* 130-151, 186-188, 223-225, 260-266).
Dispatch ==
    /\ pc = "loop"
    /\ i <= Len(request_contents)
    /\ LET request == request_contents[i]
           arm == VerbArm(request.method)
           content == ContentArm(Header(SetHeaders(request.headers), "Content-Type"))
           skip == /\ i' = i + 1
                   /\ UNCHANGED <<pc, wire, console, exit_code>>
           send(at, body) ==
                   /\ wire' = Append(wire, Exchange(request, body))
                   /\ pc' = at
                   /\ UNCHANGED <<i, console, exit_code>>
       IN  /\ IF arm = "unsupported"
              THEN /\ console' = Append(console, <<"stdout", "Not supported request type">>)
                   /\ i' = i + 1
                   /\ UNCHANGED <<pc, wire, exit_code>>
              ELSE IF Builder(arm, request.method) = None
              THEN /\ console' = Append(console, <<"stderr", "Unexpected error">>)
                   /\ pc' = "exit"
                   /\ exit_code' = Some(1)
                   /\ UNCHANGED <<i, wire>>
              ELSE IF arm = "get" THEN send("call", NoBody)
              ELSE IF request.data = None THEN skip
              ELSE IF content = "form"
              THEN \E order \in Orders(request.data[1]) :
                      send("send_form", FormBody(Form(request.data[1], order)))
              ELSE IF content = "json"
              THEN send("send_json", StringBody(ToJson(request.data[1])))
              ELSE IF content = "text"
              THEN IF "txt" \in DOMAIN request.data[1]
                   THEN send("send_text", StringBody(request.data[1]["txt"]))
                   ELSE /\ pc' = "panic"
                        /\ exit_code' = Some(101)
                        /\ console' = Append(console,
                               <<"stderr", "called Option::unwrap() on a None value">>)
                        /\ UNCHANGED <<i, wire>>
              ELSE skip
    /\ UNCHANGED <<request_contents, pending, locked, responses, origin, sapi_json>>

\* The network call returns and its result is matched (lines 108-117,
\* 152-155, 168-170, 183 and their copies); a response requests the lock.
Respond ==
    /\ pc \in {"call", "send_form", "send_json", "send_text"}
    /\ \E result \in Outcomes :
        LET request == request_contents[i]
            class == Classify(result)
        IN  /\ wire' = [wire EXCEPT ![Len(wire)].result = result]
            /\ IF class = "transport"
               THEN IF OnTransportError(pc) = "exit"
                    THEN /\ console' = Append(console,
                              <<"stderr", "Error while connecting to " \o request.target
                                  \o ":" \o ToString(request.port) \o ": " \o result.error>>)
                         /\ pc' = "exit"
                         /\ exit_code' = Some(1)
                         /\ UNCHANGED <<i, pending, locked>>
                    ELSE /\ console' = Append(console, <<"stderr", result.error>>)
                         /\ pc' = "loop"
                         /\ i' = i + 1
                         /\ UNCHANGED <<exit_code, pending, locked>>
               ELSE /\ console' = Append(console, SentLine(request, result))
                    /\ pending' = Some(MakeResponse(pc, class, request, result))
                    /\ IF locked
                       THEN pc' = "blocked" /\ UNCHANGED locked
                       ELSE pc' = "push" /\ locked' = TRUE
                    /\ UNCHANGED <<i, exit_code>>
    /\ UNCHANGED <<request_contents, responses, origin, sapi_json>>

\* The push under the lock and the end of the iteration (lines 118-129).
PushResponse ==
    /\ pc = "push"
    /\ responses' = Push(responses, pending[1])
    /\ origin' = Append(origin, i)
    /\ pending' = None
    /\ locked' = GuardAfterPush(locked)
    /\ i' = i + 1
    /\ pc' = "loop"
    /\ UNCHANGED <<request_contents, wire, console, sapi_json, exit_code>>

\* File::create("sapi.json") after the loop (lines 268-274): the file is
\* created or, if a previous run left one, truncated to nothing.
CreateFile ==
    /\ pc = "loop"
    /\ i > Len(request_contents)
    /\ \E created \in BOOLEAN :
        IF created
        THEN /\ sapi_json' = Some(<<>>)
             /\ pc' = "write"
             /\ UNCHANGED <<console, exit_code>>
        ELSE /\ console' = Append(console,
                    <<"stderr", "Error while creating sapi.json file: "
                                    \o "Permission denied (os error 13)">>)
             /\ pc' = "exit"
             /\ exit_code' = Some(1)
             /\ UNCHANGED sapi_json
    /\ UNCHANGED <<request_contents, i, wire, pending, locked, responses, origin>>

\* to_writer_pretty(file_json, &*responses.lock().await) and the end of main
\* (lines 275-283).  The file takes the lines that fit under the limit the
\* system sets on it; a write that does not fit fails and leaves them there.
WriteJson ==
    /\ pc = "write"
    /\ \E limit \in WriteLimits :
        LET document == ToWriterPretty(responses)
            written == Written(document, limit)
        IN  IF locked
            THEN /\ pc' = "blocked"
                 /\ UNCHANGED <<console, sapi_json, exit_code>>
            ELSE IF written = document
            THEN /\ sapi_json' = Some(document)
                 /\ console' = Append(console,
                        <<"stdout", "Saved full requests data to sapi.json file">>)
                 /\ pc' = "done"
                 /\ exit_code' = Some(0)
            ELSE /\ sapi_json' = Some(written)
                 /\ console' = Append(console,
                        <<"stderr", "Error while trying to save results to sapi.json file: "
                                        \o "File too large (os error 27)">>)
                 /\ pc' = "exit"
                 /\ exit_code' = Some(1)
    /\ UNCHANGED <<request_contents, i, wire, pending, locked, responses, origin>>

Next == Dispatch \/ Respond \/ PushResponse \/ CreateFile \/ WriteJson

Spec == Init /\ [][Next]_vars

-----------------------------------------------------------------------------
(* Vocabulary of the properties.                                           *)

N == Len(request_contents)
Supported(k) == request_contents[k].method \in (GetVerbs \cup PostVerbs)
ExchangesOf(k) == {w \in DOMAIN wire : wire[w].idx = k}
RecordsOf(k) == {j \in DOMAIN origin : origin[j] = k}
IsHttpError(result) == result.kind = "response" /\ result.status >= 400
ComposedUrl(r) == "http://" \o r.target \o ":" \o ToString(r.port) \o r.endpoint
\* The Content-Type value of a request, as a set of at most one value.
ContentTypeOf(r) ==
    IF r.headers # None /\ "Content-Type" \in DOMAIN r.headers[1]
    THEN {r.headers[1]["Content-Type"]} ELSE {}
HasPrefix(r, prefix) == \E v \in ContentTypeOf(r) : StartsWith(v, prefix)
\* The requests of 1..n in input order, those of `without` left out.
RECURSIVE InputOrder(_, _)
InputOrder(n, without) ==
    IF n = 0 THEN <<>>
    ELSE IF n \in without THEN InputOrder(n - 1, without)
    ELSE Append(InputOrder(n - 1, without), n)

\* C1: at the end of a run in which every exchange got a response, the
\* collection holds one record per request, the k-th for the k-th request;
\* with exactly one unsupported request it holds the N-1 others in order.
C1_OneRecordPerRequest ==
    (pc = "done" /\ \A w \in DOMAIN wire : wire[w].result.kind = "response")
        => LET unsupported == {k \in 1..N : ~Supported(k)}
           IN  /\ Len(responses) = Len(origin)
               /\ unsupported = {} => origin = InputOrder(N, {})
               /\ Cardinality(unsupported) = 1 => origin = InputOrder(N, unsupported)

\* C2: every request with a supported method whose iteration is over caused
\* exactly one HTTP exchange; a POST/PUT/PATCH request with no usable body
\* was sent with an empty body.
C2_OneExchangePerSupportedRequest ==
    \A k \in 1..N :
        (k < i /\ Supported(k))
            => /\ Cardinality(ExchangesOf(k)) = 1
               /\ \A w \in ExchangesOf(k) :
                    LET r == request_contents[k]
                    IN  (r.method \in PostVerbs
                            /\ (r.data = None
                                  \/ ~(HasPrefix(r, FormPrefix) \/ HasPrefix(r, JsonPrefix)
                                          \/ HasPrefix(r, TextPrefix))))
                            => wire[w].body.kind = "none"

\* C3: a transport error on any exchange ends the process at once with a
\* non-zero status: it is the last exchange and the loop has not moved on.
C3_TransportErrorTerminates ==
    \A w \in DOMAIN wire :
        wire[w].result.kind = "transport"
            => /\ pc = "exit"
               /\ exit_code # None /\ exit_code # Some(0)
               /\ w = Len(wire)
               /\ i = wire[w].idx

\* C4: the method of a record is the method of its request whenever the
\* status is a success; a record may differ (being "POST") only for a
\* POST/PUT/PATCH exchange that failed at the HTTP level.
C4_MethodIsVerbUsed ==
    \A j \in DOMAIN responses :
        LET r == request_contents[origin[j]]
        IN  /\ responses[j].status < 400 => responses[j].method = r.method
            /\ responses[j].method # r.method
                  => /\ r.method \in PostVerbs
                     /\ responses[j].status >= 400
                     /\ responses[j].method = "POST"

\* C5: the run ends before the loop is over only on a transport error: no
\* panic, and an exit inside the loop follows a transport error of the
\* request at hand.
C5_OnlyTransportErrorEndsEarly ==
    /\ pc # "panic"
    /\ (pc = "exit" /\ i <= N)
          => /\ wire # <<>>
             /\ wire[Len(wire)].idx = i
             /\ wire[Len(wire)].result.kind = "transport"

\* C6: an exchange answered with a 4xx/5xx status is recorded like a
\* success: while its iteration runs the process holds the record to push
\* and has not exited; once the loop has moved on there is exactly one
\* record of it, with the status and status text of the response and the
\* url http://{target}:{port}{endpoint}.
C6_HttpErrorIsRecorded ==
    \A w \in DOMAIN wire :
        IsHttpError(wire[w].result)
            => LET k == wire[w].idx
                   r == request_contents[k]
                   matches(rec) ==
                       /\ rec.status = wire[w].result.status
                       /\ rec.status_text = wire[w].result.status_text
                       /\ rec.url = ComposedUrl(r)
               IN  IF k = i
                   THEN /\ pc = "push"
                        /\ exit_code = None
                        /\ pending # None /\ matches(pending[1])
                        /\ RecordsOf(k) = {}
                   ELSE /\ k < i
                        /\ Cardinality(RecordsOf(k)) = 1
                        /\ \A j \in RecordsOf(k) : matches(responses[j])

C6_Witness ==
    /\ Len(wire) = 2 /\ Len(responses) = 2
    /\ wire[1].verb \in GetVerbs /\ wire[1].result.status = 404
    /\ wire[2].verb = "PUT" /\ wire[2].body.kind = "string"
    /\ wire[2].result.status = 500
    /\ responses[2].status = 500

\* C7: a request with an unsupported method is a no-op: it never has an
\* exchange or a record, the process never ends at it, and the step that
\* handles it changes neither the collection nor the wire and moves the
\* loop to the next request.
C7_UnsupportedState ==
    \A k \in 1..N :
        ~Supported(k)
            => /\ ExchangesOf(k) = {}
               /\ RecordsOf(k) = {}
               /\ k = i => pc = "loop" /\ exit_code = None
C7_UnsupportedStep ==
    (pc = "loop" /\ i <= N /\ ~Supported(i))
        => /\ i' = i + 1
           /\ pc' = "loop"
           /\ responses' = responses
           /\ wire' = wire
           /\ exit_code' = None
C7_UnsupportedIsNoOp == []C7_UnsupportedState /\ [][C7_UnsupportedStep]_vars

C7_Witness ==
    /\ N = 2 /\ ~Supported(1)
    /\ pc = "done"
    /\ Len(wire) = 1 /\ wire[1].idx = 2
    /\ origin = <<2>>

\* Request k of the input has begun: its iteration is past the loop head.
C8_Begun(k) == k < i \/ (k = i /\ pc # "loop")

\* C8: dispatch is strictly sequential: at most one exchange is in flight,
\* exchanges happen in input order, the next request begins only after the
\* exchange of an earlier one has obtained its response and its record has
\* been appended (a process that terminated begins no further request),
\* and the lock is held only for a push and never requested while it is
\* held.
C8_StrictlySequential ==
    /\ Cardinality({w \in DOMAIN wire : wire[w].result.kind = "pending"}) <= 1
    /\ \A w \in DOMAIN wire :
          /\ wire[w].idx <= i
          /\ wire[w].result.kind = "pending" => (w = Len(wire) /\ wire[w].idx = i)
          /\ \A v \in DOMAIN wire : v < w => wire[v].idx < wire[w].idx
          /\ \A k \in 1..N :
                (wire[w].idx < k /\ C8_Begun(k))
                    => /\ wire[w].result.kind = "response"
                       /\ RecordsOf(wire[w].idx) # {}
    /\ pc # "blocked"
    /\ locked <=> pc = "push"

\* C9: the body of every exchange is determined by the method, the
\* Content-Type value and the data of its request: none for GET/HEAD/DELETE;
\* for POST/PUT/PATCH the data pairs as form fields under the form prefix,
\* else the data as one JSON object under the json prefix, else the value
\* of txt under the text prefix, else none; two exchanges of requests that
\* agree on the three carry the same body.
C9_JsonTexts(data) ==
    { "{" \o Join([k \in DOMAIN o |-> "\"" \o o[k] \o "\":\"" \o data[o[k]] \o "\""], ",")
          \o "}" : o \in Orders(data) }
C9_Fields(body) == {body.form[k] : k \in DOMAIN body.form}
C9_BodyIsFunctionOfRequest ==
    \A w \in DOMAIN wire :
        LET e == wire[w]
            r == request_contents[e.idx]
        IN  /\ e.verb = r.method
            /\ r.method \in GetVerbs => e.body = NoBody
            /\ r.method \in PostVerbs =>
                  IF r.data = None THEN e.body = NoBody
                  ELSE IF HasPrefix(r, FormPrefix)
                  THEN /\ e.body.kind = "form"
                       /\ Len(e.body.form) = Cardinality(DOMAIN r.data[1])
                       /\ C9_Fields(e.body) = {<<f, r.data[1][f]>> : f \in DOMAIN r.data[1]}
                  ELSE IF HasPrefix(r, JsonPrefix)
                  THEN e.body.kind = "string" /\ e.body.text \in C9_JsonTexts(r.data[1])
                  ELSE IF HasPrefix(r, TextPrefix)
                  THEN e.body.kind = "string" /\ e.body.text = r.data[1].txt
                  ELSE e.body = NoBody
            /\ \A v \in DOMAIN wire :
                  LET q == request_contents[wire[v].idx]
                  IN  (q.method = r.method /\ ContentTypeOf(q) = ContentTypeOf(r)
                          /\ q.data = r.data)
                        => /\ wire[v].body.kind = e.body.kind
                           /\ wire[v].body.text = e.body.text
                           /\ C9_Fields(wire[v].body) = C9_Fields(e.body)

C9_Witness ==
    /\ Len(wire) = 2
    /\ wire[1].body.kind = "form" /\ Len(wire[1].body.form) = 2
    /\ wire[1].body.form[1][1] = "txt"
    /\ wire[2].verb = "PATCH" /\ wire[2].body.kind = "string"
    /\ wire[2].body.text = "{\"a\":\"1\",\"txt\":\"hello\"}"
    /\ wire[2].result.kind = "response"

\* C10: the collection is append-only and bounded by the dispatched prefix:
\* a step leaves it as it is or appends one record at its end; its records
\* come from distinct requests in input order, all of them dispatched, so
\* it is never longer than the number of requests dispatched; the file of a
\* run that ended normally is the document of the collection.
C10_State ==
    /\ Len(responses) = Len(origin)
    /\ \A j \in DOMAIN origin :
          /\ origin[j] >= 1 /\ origin[j] < i
          /\ \A h \in DOMAIN origin : h < j => origin[h] < origin[j]
    /\ Len(responses) <= i - 1
    /\ i - 1 <= N
    /\ pc = "write" => sapi_json = Some(<<>>)
    /\ pc = "done" => sapi_json = Some(ToWriterPretty(responses))
C10_Step ==
    \/ responses' = responses /\ origin' = origin
    \/ /\ Len(responses') = Len(responses) + 1
       /\ SubSeq(responses', 1, Len(responses)) = responses
       /\ SubSeq(origin', 1, Len(origin)) = origin
       /\ origin'[Len(origin')] = i
C10_AppendOnly == []C10_State /\ [][C10_Step]_vars

C10_Witness ==
    /\ pc = "done"
    /\ Len(responses) = 2
    /\ responses[1] # responses[2]
    /\ sapi_json = Some(ToWriterPretty(responses))
    /\ Len(sapi_json[1]) = 18

====
